---- MODULE Spec2Model ----
(***************************************************************************)
(* Model of the directory service: AuthHandler (authentication.py), the    *)
(* role policy (routers/users.py), and the request handlers of             *)
(* routers/auth.py, routers/users.py and routers/companies.py, run against *)
(* the two MongoDB collections "users" and "companies".                    *)
(***************************************************************************)
EXTENDS Integers, Sequences, FiniteSets, TLC

VARIABLES
    users,      \* the "users" collection: sequence of documents, in insertion order
    companies,  \* the "companies" collection: sequence of documents
    nextOid,    \* number of ObjectIds the store has handed out
    tokens,     \* bearer tokens handed to clients so far (never stored by the server)
    now,        \* the clock (datetime.utcnow), in minutes since process start
    regs,       \* register requests in flight: slot -> request record with its pc
    response,   \* the response of the handler (or function) that completed last
    permLog     \* evaluations of has_permission_to_create, in call order

vars == <<users, companies, nextOid, tokens, now, regs, response, permLog>>

-----------------------------------------------------------------------------
(* Bounds of the model *)

MaxTime == 3          \* last instant of the clock
MaxTokens == 2        \* tokens handed out in one behaviour
MaxPermCalls == 2     \* evaluations of the role policy in one behaviour
MaxUsers == 3         \* documents in "users"
MaxCompanies == 1     \* documents in "companies"
MaxInFlight == 2      \* concurrent register requests
MaxOid == 3           \* ObjectIds the store hands out in one behaviour

-----------------------------------------------------------------------------
(* models.py: role kinds and account statuses *)

SUPERUSER == "KURIOUS_SUPERUSER"
SALES == "KURIOUS_SALES"
CLIENT_ADMIN == "CLIENT_ADMIN"
CLIENT_USER == "CLIENT_USER"

UserType == {SUPERUSER, SALES, CLIENT_ADMIN, CLIENT_USER}

AccountStatus == {"PENDING", "ACTIVE", "DEACTIVATED"}

NoResponse == [op |-> "none"]

-----------------------------------------------------------------------------
(* routers/users.py: the role policy *)

priority ==
    [t \in UserType |->
        CASE t = SUPERUSER -> 4
          [] t = SALES -> 3
          [] t = CLIENT_ADMIN -> 2
          [] t = CLIENT_USER -> 1]

\* mutant: equal priority is enough
has_permission_to_create_ge(current_user_type, new_user_type) ==
    IF priority[current_user_type] = 4
    THEN TRUE
    ELSE priority[current_user_type] >= priority[new_user_type]

has_permission_to_create(current_user_type, new_user_type) ==
    IF priority[current_user_type] = 4
    THEN TRUE
    ELSE priority[current_user_type] > priority[new_user_type]

\* A caller evaluates the policy for one pair of roles.
PermCall(a, t) ==
    /\ Len(permLog) < MaxPermCalls
    /\ permLog' = Append(permLog,
            [actor |-> a, target |-> t, result |-> has_permission_to_create(a, t)])
    /\ UNCHANGED <<users, companies, nextOid, tokens, now, regs, response>>

-----------------------------------------------------------------------------
(* authentication.py: AuthHandler *)

JWT_SECRET == "JWT_SECRET"
OtherSecret == "not-the-secret"

\* JWT_EXPIRE_MINUTES, the default time-to-live read from the environment
JWT_EXPIRE_MINUTES == 2

\* HS256 signature of a payload under a key: equal only for equal payload and key
Sign(payload, key) == [key |-> key, over |-> payload]

\* a string that is not three base64 segments
Malformed == [payload |-> [garbage |-> TRUE], sig |-> [garbage |-> TRUE]]

encode_token(user_id, jwt_expire_minutes) ==
    LET payload == [sub |-> user_id, iat |-> now, exp |-> now + jwt_expire_minutes]
    IN  [payload |-> payload, sig |-> Sign(payload, JWT_SECRET)]

WellSigned(token) ==
    /\ token # Malformed
    /\ token.sig = Sign(token.payload, JWT_SECRET)

Expired401 == [status |-> 401, detail |-> "Signature has expired"]
Invalid401 == [status |-> 401, detail |-> "Invalid token"]
Decoded(sub) == [status |-> 200, sub |-> sub]

\* mutant: the expiry claim is not verified
decode_token_no_exp(token) ==
    IF ~WellSigned(token) THEN {Invalid401} ELSE {Decoded(token.payload.sub)}

\* mutant: a later login of the same account revokes the earlier tokens
decode_token_latest_only(token) ==
    IF ~WellSigned(token) THEN {Invalid401}
    ELSE IF \E t \in tokens : t.payload.sub = token.payload.sub
                              /\ t.payload.iat > token.payload.iat
         THEN {Invalid401}
    ELSE IF token.payload.exp < now THEN {Expired401}
    ELSE IF token.payload.exp = now THEN {Expired401, Decoded(token.payload.sub)}
    ELSE {Decoded(token.payload.sub)}

\* The outcomes decode_token can have at the current instant.  jwt.decode
\* verifies the signature before the claims.  At the instant now = exp the
\* installed PyJWT decides (1.x: expired when exp < now; 2.x: when exp <= now),
\* so both outcomes are possible there.
decode_token(token) ==
    IF ~WellSigned(token) THEN {Invalid401}
    ELSE IF token.payload.exp < now THEN {Expired401}
    ELSE IF token.payload.exp = now THEN {Expired401, Decoded(token.payload.sub)}
    ELSE {Decoded(token.payload.sub)}

\* bson.ObjectId and its 24-hex-character string form: str(ObjectId(s)) = s,
\* and ObjectId(s) raises InvalidId for any other string
str(oid) == [hex |-> oid]
IsObjectIdString(s) == DOMAIN s = {"hex"}
ObjectId(s) == s.hex

\* the subjects a forger can write into a payload
TokenSubjects == {str(1), str(2)}

\* What a client can put in the Authorization header (or the reset URL): a token
\* it was handed, one of those with the payload altered and the old signature
\* kept, a payload signed with another key, or a string that is no JWT.
Tamperings(p) ==
    {[p EXCEPT !.exp = p.exp + 1]} \cup {[p EXCEPT !.sub = s] : s \in TokenSubjects \ {p.sub}}

ClientTokens ==
    tokens
    \cup UNION {{[payload |-> p, sig |-> t.sig] : p \in Tamperings(t.payload)} : t \in tokens}
    \cup {[payload |-> t.payload, sig |-> Sign(t.payload, OtherSecret)] : t \in tokens}
    \cup {Malformed}

\* passlib bcrypt: the stored value is not the plain text; verification
\* recomputes the digest of the candidate
get_password_hash(password) == [scheme |-> "bcrypt", digest |-> <<"H", password>>]

\* mutant: every candidate verifies
verify_password_any(plain_password, hashed_password) == TRUE

verify_password(plain_password, hashed_password) ==
    hashed_password = get_password_hash(plain_password)

\* What the requests of the handler specifications carry: a token the client
\* was handed, or a string that is no JWT
RequestTokens == tokens \cup {Malformed}

-----------------------------------------------------------------------------
(* SpecToken: encode_token / decode_token against the clock *)

MaxTtl == 2

EncodeCall(i, t) ==
    /\ Cardinality(tokens) < MaxTokens
    /\ tokens' = tokens \cup {encode_token(i, t)}
    /\ UNCHANGED <<users, companies, nextOid, now, regs, response, permLog>>

DecodeCall(tok) ==
    /\ \E out \in decode_token(tok) :
        response' = [op |-> "decode_token", token |-> tok, at |-> now, out |-> out]
    /\ UNCHANGED <<users, companies, nextOid, tokens, now, regs, permLog>>

Tick ==
    /\ now < MaxTime
    /\ now' = now + 1
    /\ UNCHANGED <<users, companies, nextOid, tokens, regs, response, permLog>>

-----------------------------------------------------------------------------
(* The document store (motor / MongoDB) and the response shapes *)

\* find_one returns None when nothing matches
None == [nil |-> TRUE]

\* the first document of a collection whose field has the value
find_one(coll, field, value) ==
    IF \E i \in DOMAIN coll : coll[i][field] = value
    THEN coll[CHOOSE i \in DOMAIN coll :
                /\ coll[i][field] = value
                /\ \A j \in DOMAIN coll : coll[j][field] = value => i <= j]
    ELSE None

\* update_one with $set: the first matching document gets the fields of `set`
update_one(coll, field, value, set) ==
    IF find_one(coll, field, value) = None THEN coll
    ELSE LET i == CHOOSE k \in DOMAIN coll :
                    /\ coll[k][field] = value
                    /\ \A j \in DOMAIN coll : coll[j][field] = value => k <= j
         IN  [coll EXCEPT ![i] = set @@ coll[i]]

\* a projection that drops fields, and one that keeps only the fields of a model
Without(doc, fields) == [f \in (DOMAIN doc) \ fields |-> doc[f]]
Only(doc, fields) == [f \in (DOMAIN doc) \cap fields |-> doc[f]]

\* the request carried no credentials
NoAuth == [anonymous |-> TRUE]

HTTPException(op, userId, status_code, detail) ==
    [op |-> op, userId |-> userId, status |-> status_code, detail |-> detail,
     content |-> <<>>]

JSONResponse(op, userId, status_code, content) ==
    [op |-> op, userId |-> userId, status |-> status_code, detail |-> "",
     content |-> content]

\* the instant the classes of models.py were defined: the default of every
\* datetime field (default=datetime.now(timezone.utc) is evaluated once)
ProcessStart == 0

\* the fields of UserBase, and of UserBaseWithId
UserBaseFields ==
    {"username", "email", "firstName", "lastName", "companyName", "userType",
     "accountStatus", "lastLogin", "dateJoined"}
UserBaseWithIdFields == UserBaseFields \cup {"id"}

-----------------------------------------------------------------------------
(* routers/auth.py *)

Idle == [pc |-> "idle"]

InFlight == {s \in DOMAIN regs : regs[s] # Idle}

\* mutant: the password goes into the document as it was sent
NewUserDoc_plain_password(newUser) ==
    [username |-> newUser.email,
     email |-> newUser.email,
     password |-> [scheme |-> "plain", digest |-> <<"P", newUser.password>>],
     firstName |-> newUser.firstName,
     lastName |-> newUser.lastName,
     companyName |-> newUser.companyName,
     userType |-> newUser.userType,
     accountStatus |-> "ACTIVE",
     lastLogin |-> ProcessStart,
     dateJoined |-> ProcessStart]

\* UserBaseWithPass(**newUser): the document register inserts
NewUserDoc(newUser) ==
    [username |-> newUser.email,
     email |-> newUser.email,
     password |-> get_password_hash(newUser.password),
     firstName |-> newUser.firstName,
     lastName |-> newUser.lastName,
     companyName |-> newUser.companyName,
     userType |-> newUser.userType,
     accountStatus |-> "ACTIVE",
     lastLogin |-> ProcessStart,
     dateJoined |-> ProcessStart]

\* register, up to its first await: the lookup by email
register_find_email(s, newUser, maxUsers) ==
    /\ regs[s] = Idle
    /\ Len(users) + Cardinality(InFlight) < maxUsers
    /\ nextOid + Cardinality(InFlight) < MaxOid
    /\ LET doc == NewUserDoc(newUser)
       IN  IF find_one(users, "email", doc.email) # None
           THEN /\ response' = HTTPException("register", NoAuth, 409,
                        <<"User with email already exists", doc.email>>)
                /\ regs' = regs
           ELSE /\ regs' = [regs EXCEPT ![s] = [pc |-> "find_username", newUser |-> doc]]
                /\ response' = response
    /\ UNCHANGED <<users, companies, nextOid, tokens, now, permLog>>

\* register: the lookup by username
register_find_username(s) ==
    /\ regs[s].pc = "find_username"
    /\ IF find_one(users, "username", regs[s].newUser.username) # None
       THEN /\ response' = HTTPException("register", NoAuth, 409,
                    <<"User with username already exists", regs[s].newUser.username>>)
            /\ regs' = [regs EXCEPT ![s] = Idle]
       ELSE /\ regs' = [regs EXCEPT ![s].pc = "insert_one"]
            /\ response' = response
    /\ UNCHANGED <<users, companies, nextOid, tokens, now, permLog>>

\* register: insert_one; the store assigns the _id
register_insert_one(s) ==
    /\ regs[s].pc = "insert_one"
    /\ nextOid' = nextOid + 1
    /\ users' = Append(users, ("_id" :> nextOid') @@ regs[s].newUser)
    /\ regs' = [regs EXCEPT ![s] = [pc |-> "find_created", inserted_id |-> nextOid']]
    /\ UNCHANGED <<companies, tokens, now, response, permLog>>

\* register: read the created document back without its password, respond 201
register_respond(s) ==
    /\ regs[s].pc = "find_created"
    /\ LET created_user == Without(find_one(users, "_id", regs[s].inserted_id), {"password"})
       IN  response' = JSONResponse("register", NoAuth, 201,
                [created_user EXCEPT !["_id"] = str(@)])
    /\ regs' = [regs EXCEPT ![s] = Idle]
    /\ UNCHANGED <<users, companies, nextOid, tokens, now, permLog>>

login(loginUser) ==
    LET user == find_one(users, "email", loginUser.email)
    IN  /\ IF user = None \/ ~verify_password(loginUser.password, user.password)
           THEN /\ response' = HTTPException("login", NoAuth, 401,
                        "Invalid email and/or password")
                /\ UNCHANGED <<users, tokens>>
           ELSE LET token == encode_token(str(user["_id"]), JWT_EXPIRE_MINUTES)
                IN  /\ Cardinality(tokens \cup {token}) <= MaxTokens
                    /\ users' = update_one(users, "_id", user["_id"], [lastLogin |-> now])
                    /\ tokens' = tokens \cup {token}
                    /\ response' = JSONResponse("login", NoAuth, 200,
                            [id |-> str(user["_id"]), email |-> user.email,
                             userType |-> user.userType, token |-> token])
        /\ UNCHANGED <<companies, nextOid, now, regs, permLog>>

\* "$addFields": {"id": {"$toString": "$_id"}}, then "$project": {"_id": 0}
WithId(doc) == ("id" :> str(doc["_id"])) @@ Without(doc, {"_id"})

currentUser(tok) ==
    /\ \E out \in decode_token(tok) :
        IF out.status # 200
        THEN response' = HTTPException("currentUser", NoAuth, out.status, out.detail)
        ELSE LET userId == out.sub
                 found == find_one(users, "_id", ObjectId(userId))
             IN  IF found = None
                 THEN \* .next() on an empty cursor raises StopAsyncIteration
                      response' = HTTPException("currentUser", userId, 500,
                            "Internal Server Error")
                 ELSE response' = JSONResponse("currentUser", userId, 200,
                            Only(Without(WithId(found), {"password"}),
                                 UserBaseWithIdFields))
    /\ UNCHANGED <<users, companies, nextOid, tokens, now, regs, permLog>>

\* accountStatus not in ["ACTIVE", "PENDING"] raises 403
reset_allowed(accountStatus) == accountStatus \in {"ACTIVE", "PENDING"}

\* mutant: the reset rotates the credential and leaves the status
reset_set_password_only(password) == [password |-> get_password_hash(password)]

\* mutant: the reset leaves the account waiting for activation
reset_set_pending(password) ==
    [password |-> get_password_hash(password), accountStatus |-> "PENDING"]

\* the "$set" of update_password
reset_set(password) ==
    [password |-> get_password_hash(password), accountStatus |-> "ACTIVE"]

update_password(jwt, password) ==
    /\ \E out \in decode_token(jwt) :
        IF out.status # 200
        THEN /\ response' = HTTPException("update_password", NoAuth, out.status, out.detail)
             /\ users' = users
        ELSE LET userId == out.sub
                 found == find_one(users, "_id", ObjectId(userId))
             IN  IF found = None
                 THEN /\ response' = HTTPException("update_password", userId, 404,
                            "Access token is valid, but the associated user does not exist.")
                      /\ users' = users
                 ELSE IF ~reset_allowed(found.accountStatus)
                 THEN /\ response' = HTTPException("update_password", userId, 403,
                            "Current user is not active or pending registration, and not authorized.")
                      /\ users' = users
                 ELSE /\ users' = update_one(users, "_id", ObjectId(userId),
                            reset_set(password))
                      /\ response' = JSONResponse("update_password", userId, 200,
                            [success |-> TRUE,
                             message |-> "User password updated; user accountStatus set to ACTIVE."])
    /\ UNCHANGED <<companies, nextOid, tokens, now, regs, permLog>>

-----------------------------------------------------------------------------
(* Text: names are sequences of characters *)

\* the characters of the model's names, in code-point order
CharOrder == <<"A", "B", "C", "a", "b", "c">>

toLower(c) ==
    CASE c = "A" -> "a"
      [] c = "B" -> "b"
      [] c = "C" -> "c"
      [] OTHER -> c

toLowerStr(text) == [i \in DOMAIN text |-> toLower(text[i])]

\* "$regex" with a pattern of plain letters: the pattern occurs in the text;
\* with "$options": "i" case is ignored
regex(pattern, text, ignore_case) ==
    LET p == IF ignore_case THEN toLowerStr(pattern) ELSE pattern
        t == IF ignore_case THEN toLowerStr(text) ELSE text
    IN  \E i \in 0..(Len(t) - Len(p)) : SubSeq(t, i + 1, i + Len(p)) = p

\* lexicographic order of two texts
RECURSIVE TextLess(_, _)
TextLess(a, b) ==
    IF b = <<>> THEN FALSE
    ELSE IF a = <<>> THEN TRUE
    ELSE IF Head(a) = Head(b) THEN TextLess(Tail(a), Tail(b))
    ELSE \E k \in 1..Len(CharOrder) :
            /\ CharOrder[k] = Head(a)
            /\ \E m \in (k + 1)..Len(CharOrder) : CharOrder[m] = Head(b)

\* a stable sort of a sequence by a strict order on its elements
SortBy(seq, Less(_, _)) ==
    LET n == Len(seq)
        Before(i, j) == Less(seq[i], seq[j]) \/ (~Less(seq[j], seq[i]) /\ i < j)
        rank(i) == Cardinality({j \in 1..n : Before(j, i)}) + 1
    IN  [r \in 1..n |-> seq[CHOOSE i \in 1..n : rank(i) = r]]

SeqMap(seq, F(_)) == [i \in DOMAIN seq |-> F(seq[i])]

Min(a, b) == IF a <= b THEN a ELSE b

-----------------------------------------------------------------------------
(* routers/users.py: get_users *)

\* "Current user must be a Kurious employee to query users."
may_query_users(userType) == userType \in {SALES, SUPERUSER}

\* match_query: a filter that is None or empty adds no condition
match_query(doc, firstName, lastName, companyName) ==
    /\ firstName # <<>> => regex(firstName, doc.firstName, TRUE)
    /\ lastName # <<>> => regex(lastName, doc.lastName, TRUE)
    /\ companyName # <<>> => regex(companyName, doc.companyName, TRUE)

\* one element of "data" after response_model=UsersResponse
UserBaseWithId(doc) == Only(doc, UserBaseWithIdFields)

\* mutant: "$skip" of page * pageSize
users_pipeline_skip_page(firstName, lastName, companyName, page, pageSize) ==
    LET matched == SelectSeq(users,
                        LAMBDA d : match_query(d, firstName, lastName, companyName))
        shaped == SeqMap(matched, LAMBDA d : Without(WithId(d), {"password"}))
        skip == page * pageSize
    IN  SubSeq(shaped, skip + 1, Min(Len(shaped), skip + pageSize))

\* the users pipeline: $match, $addFields id, $project, $skip, $limit
users_pipeline(firstName, lastName, companyName, page, pageSize) ==
    LET matched == SelectSeq(users,
                        LAMBDA d : match_query(d, firstName, lastName, companyName))
        shaped == SeqMap(matched, LAMBDA d : Without(WithId(d), {"password"}))
        skip == (page - 1) * pageSize
    IN  SubSeq(shaped, skip + 1, Min(Len(shaped), skip + pageSize))

count_pipeline(firstName, lastName, companyName) ==
    Len(SelectSeq(users, LAMBDA d : match_query(d, firstName, lastName, companyName)))

get_users(tok, page, pageSize, firstName, lastName, companyName) ==
    /\ \E out \in decode_token(tok) :
        IF out.status # 200
        THEN response' = HTTPException("get_users", NoAuth, out.status, out.detail)
        ELSE LET userId == out.sub
                 found == find_one(users, "_id", ObjectId(userId))
             IN  IF found = None
                 THEN \* UserBase(**None) raises TypeError
                      response' = HTTPException("get_users", userId, 500,
                            "Internal Server Error")
                 ELSE IF found.accountStatus # "ACTIVE"
                 THEN response' = HTTPException("get_users", userId, 403,
                            "Current user is not active and not authorized.")
                 ELSE IF ~may_query_users(found.userType)
                 THEN response' = HTTPException("get_users", userId, 403,
                            "Current user must be a Kurious employee to query users.")
                 ELSE IF (page - 1) * pageSize < 0 \/ pageSize <= 0
                 THEN \* the store rejects a negative $skip and a non-positive
                      \* $limit; the except clause turns that into a 500
                      response' = HTTPException("get_users", userId, 500,
                            "aggregate failed")
                 ELSE response' = JSONResponse("get_users", userId, 200,
                            [meta |-> [page |-> page, pageSize |-> pageSize,
                                       totalCount |-> count_pipeline(firstName, lastName, companyName)],
                             data |-> SeqMap(users_pipeline(firstName, lastName, companyName,
                                                            page, pageSize),
                                             UserBaseWithId)])
    /\ UNCHANGED <<users, companies, nextOid, tokens, now, regs, permLog>>

-----------------------------------------------------------------------------
(* routers/companies.py *)

Ok(value) == [ok |-> TRUE, value |-> value]
Raise(status_code, detail) == [ok |-> FALSE, status |-> status_code, detail |-> detail]

\* mutant: the account status is not looked at
get_and_check_user_no_status(userId) ==
    LET found == find_one(users, "_id", ObjectId(userId))
    IN  IF found = None
        THEN Raise(403, "Current user is not active and not authorized.")
        ELSE Ok(found)

get_and_check_user(userId) ==
    LET found == find_one(users, "_id", ObjectId(userId))
    IN  IF found = None \/ found.accountStatus # "ACTIVE"
        THEN Raise(403, "Current user is not active and not authorized.")
        ELSE Ok(found)

\* the allowed set every company handler passes
KuriousStaff == <<SUPERUSER, SALES>>

Range(seq) == {seq[i] : i \in DOMAIN seq}

\* mutant: the role is not compared with the allowed set
check_user_permissions_any(user, allowed_user_types) == Ok(TRUE)

check_user_permissions(user, allowed_user_types) ==
    IF user.userType \notin Range(allowed_user_types)
    THEN Raise(403, [msg |-> "Only {allowed} userTypes can create new company accounts. You have userType {actual}",
                     allowed |-> allowed_user_types,
                     actual |-> user.userType])
    ELSE Ok(TRUE)

\* get_and_check_user followed by check_user_permissions, as the four
\* mutating handlers run them
authorize(userId) ==
    LET checked == get_and_check_user(userId)
    IN  IF ~checked.ok THEN checked
        ELSE LET allowed == check_user_permissions(checked.value, KuriousStaff)
             IN  IF ~allowed.ok THEN allowed ELSE checked

get_company_admin(email) ==
    LET company_admin == find_one(users, "email", email)
    IN  IF company_admin = None
        THEN Raise(404, <<"A user with this email does not exist. User with this email must be registered first.", email>>)
        ELSE Ok(company_admin)

\* NewCompany: conint(ge=0, lt=10_000_000); a body that fails validation never
\* reaches the handler
TokenAllotmentLimit == 10000000
NewCompany_valid(newCompany) ==
    0 <= newCompany.tokenAllotment /\ newCompany.tokenAllotment < TokenAllotmentLimit

\* "$addFields": {"companyId": {"$toString": "$_id"}}, "$project": {"_id": 0}
WithCompanyId(doc) == ("companyId" :> str(doc["_id"])) @@ Without(doc, {"_id"})

create_company(tok, newCompany, maxCompanies) ==
    /\ NewCompany_valid(newCompany)
    /\ \E out \in decode_token(tok) :
        IF out.status # 200
        THEN /\ response' = HTTPException("create_company", NoAuth, out.status, out.detail)
             /\ UNCHANGED <<companies, nextOid>>
        ELSE LET userId == out.sub
                 auth == authorize(userId)
                 admin == get_company_admin(newCompany.email)
             IN  IF ~auth.ok
                 THEN /\ response' = HTTPException("create_company", userId, auth.status, auth.detail)
                      /\ UNCHANGED <<companies, nextOid>>
                 ELSE IF ~admin.ok
                 THEN /\ response' = HTTPException("create_company", userId, admin.status, admin.detail)
                      /\ UNCHANGED <<companies, nextOid>>
                 ELSE /\ Len(companies) < maxCompanies
                      /\ nextOid < MaxOid
                      /\ nextOid' = nextOid + 1
                      /\ LET company == [_id |-> nextOid',
                                         companyName |-> newCompany.companyName,
                                         tokenUsage |-> 0,
                                         tokenAllotment |-> newCompany.tokenAllotment,
                                         isActive |-> TRUE,
                                         adminId |-> str(admin.value["_id"]),
                                         lastUpdated |-> now,
                                         dateCreated |-> now]
                         IN  /\ companies' = Append(companies, company)
                             /\ response' = JSONResponse("create_company", userId, 201,
                                    ("email" :> newCompany.email) @@ WithCompanyId(company))
    /\ UNCHANGED <<users, tokens, now, regs, permLog>>

\* the fields of Company, and of CompanyInDB
CompanyFields ==
    {"companyId", "companyName", "tokenUsage", "tokenAllotment", "isActive",
     "adminId", "firstName", "lastName", "lastUpdated", "dateCreated"}

\* mutant: the handler's dictionaries go out as they are
CompanyInDB_unfiltered(company) == company

\* one element of the list after response_model=list[CompanyInDB]
CompanyInDB(company) ==
    [Only(company, CompanyFields \cup {"email", "users"})
        EXCEPT !["users"] = SeqMap(@, UserBaseWithId)]

OrderBy ==
    {"ALPHABETICAL_ASC", "ALPHABETICAL_DESC", "CREATED_AT_DATE_ASC",
     "CREATED_AT_DATE_DESC", "UPDATED_AT_DATE_ASC", "UPDATED_AT_DATE_DESC"}

\* sort_order[orderBy.name] applied to the matched companies
sort_order(seq, orderBy) ==
    CASE orderBy = "CREATED_AT_DATE_ASC" ->
            SortBy(seq, LAMBDA a, b : a.dateCreated < b.dateCreated)
      [] orderBy = "CREATED_AT_DATE_DESC" ->
            SortBy(seq, LAMBDA a, b : a.dateCreated > b.dateCreated)
      [] orderBy = "UPDATED_AT_DATE_ASC" ->
            SortBy(seq, LAMBDA a, b : a.lastUpdated < b.lastUpdated)
      [] orderBy = "UPDATED_AT_DATE_DESC" ->
            SortBy(seq, LAMBDA a, b : a.lastUpdated > b.lastUpdated)
      [] orderBy = "ALPHABETICAL_ASC" ->
            SortBy(seq, LAMBDA a, b :
                TextLess(toLowerStr(a.companyName), toLowerStr(b.companyName)))
      [] orderBy = "ALPHABETICAL_DESC" ->
            SortBy(seq, LAMBDA a, b :
                TextLess(toLowerStr(b.companyName), toLowerStr(a.companyName)))

\* whether the loop of get_companies can resolve the company's admin
admin_resolves(company) ==
    /\ IsObjectIdString(company.adminId)
    /\ find_one(users, "_id", ObjectId(company.adminId)) # None

\* the loop body of get_companies: admin fields and the company's users
with_admin_and_users(company) ==
    LET admin == find_one(users, "_id", ObjectId(company.adminId))
        members == SelectSeq(users, LAMBDA u : u.companyName = company.companyName)
    IN  ("email" :> admin.email) @@ ("firstName" :> admin.firstName)
        @@ ("lastName" :> admin.lastName)
        @@ ("users" :> SeqMap(members, WithId)) @@ company

\* get_companies runs get_and_check_user only: it compares no role
get_companies(tok, pattern, orderBy) ==
    /\ \E out \in decode_token(tok) :
        IF out.status # 200
        THEN response' = HTTPException("get_companies", NoAuth, out.status, out.detail)
        ELSE LET userId == out.sub
                 checked == get_and_check_user(userId)
                 matched == SelectSeq(companies,
                                LAMBDA c : regex(pattern, c.companyName, FALSE))
                 sorted == sort_order(SeqMap(matched, WithCompanyId), orderBy)
             IN  IF ~checked.ok
                 THEN response' = HTTPException("get_companies", userId,
                            checked.status, checked.detail)
                 ELSE IF \E i \in DOMAIN sorted : ~admin_resolves(sorted[i])
                 THEN \* ObjectId() raises InvalidId, or admin is None and
                      \* admin["email"] raises TypeError
                      response' = HTTPException("get_companies", userId, 500,
                            "Internal Server Error")
                 ELSE response' = JSONResponse("get_companies", userId, 200,
                            SeqMap(SeqMap(sorted, with_admin_and_users), CompanyInDB))
    /\ UNCHANGED <<users, companies, nextOid, tokens, now, regs, permLog>>

\* the fields of CompanyUpdate
CompanyUpdateFields == {"companyName", "tokenUsage", "tokenAllotment", "isActive", "adminId"}

\* A CompanyUpdate body is the record of the fields the request named.
\* updatedCompany.dict(exclude_unset=True) is that record; serialised through
\* response_model=CompanyUpdate the other fields are null.
exclude_unset(updatedCompany) == updatedCompany

CompanyUpdate_json(updatedCompany) ==
    [f \in CompanyUpdateFields |->
        IF f \in DOMAIN updatedCompany THEN updatedCompany[f] ELSE None]

\* remove the first document with the _id; the collection keeps its order
delete_one(coll, oid) == SelectSeq(coll, LAMBDA d : d["_id"] # oid)

update_company(tok, companyId, updatedCompany) ==
    /\ \E out \in decode_token(tok) :
        IF out.status # 200
        THEN /\ response' = HTTPException("update_company", NoAuth, out.status, out.detail)
             /\ companies' = companies
        ELSE LET userId == out.sub
                 auth == authorize(userId)
                 update == ("lastUpdated" :> now) @@ exclude_unset(updatedCompany)
                 updated == update_one(companies, "_id", ObjectId(companyId), update)
             IN  IF ~auth.ok
                 THEN /\ response' = HTTPException("update_company", userId, auth.status, auth.detail)
                      /\ companies' = companies
                 ELSE IF updated = companies
                 THEN \* modified_count == 0: no such company, or nothing changed
                      /\ response' = HTTPException("update_company", userId, 404, "Company not found")
                      /\ companies' = companies
                 ELSE /\ companies' = updated
                      /\ response' = JSONResponse("update_company", userId, 200,
                                CompanyUpdate_json(updatedCompany))
    /\ UNCHANGED <<users, nextOid, tokens, now, regs, permLog>>

delete_company(tok, companyId) ==
    /\ \E out \in decode_token(tok) :
        IF out.status # 200
        THEN /\ response' = HTTPException("delete_company", NoAuth, out.status, out.detail)
             /\ companies' = companies
        ELSE LET userId == out.sub
                 auth == authorize(userId)
                 remaining == delete_one(companies, ObjectId(companyId))
             IN  IF ~auth.ok
                 THEN /\ response' = HTTPException("delete_company", userId, auth.status, auth.detail)
                      /\ companies' = companies
                 ELSE IF remaining = companies
                 THEN /\ response' = HTTPException("delete_company", userId, 404, "Company not found")
                      /\ companies' = companies
                 ELSE /\ companies' = remaining
                      /\ response' = JSONResponse("delete_company", userId, 200,
                                [status |-> "success"])
    /\ UNCHANGED <<users, nextOid, tokens, now, regs, permLog>>

company_status(tok, companyId, isActive) ==
    /\ \E out \in decode_token(tok) :
        IF out.status # 200
        THEN /\ response' = HTTPException("company_status", NoAuth, out.status, out.detail)
             /\ companies' = companies
        ELSE LET userId == out.sub
                 auth == authorize(userId)
                 updated == update_one(companies, "_id", ObjectId(companyId),
                                [isActive |-> isActive, lastUpdated |-> now])
             IN  IF ~auth.ok
                 THEN /\ response' = HTTPException("company_status", userId, auth.status, auth.detail)
                      /\ companies' = companies
                 ELSE IF updated = companies
                 THEN /\ response' = HTTPException("company_status", userId, 404, "Company not found")
                      /\ companies' = companies
                 ELSE /\ companies' = updated
                      /\ response' = JSONResponse("company_status", userId, 200,
                                [status |-> "success"])
    /\ UNCHANGED <<users, nextOid, tokens, now, regs, permLog>>

-----------------------------------------------------------------------------
(* Inputs of the requests *)

Emails == {"a@x.com", "b@x.com"}
Passwords == {"Abcdef12", "Xyz98765"}
Bill == <<"B", "b">>
Smith == <<"C", "c">>
Acme == <<"A", "c">>

\* a document that is in "users" when the process starts
SeedUser(oid, email, userType, accountStatus) ==
    [_id |-> oid, username |-> email, email |-> email,
     password |-> get_password_hash("Abcdef12"),
     firstName |-> Bill, lastName |-> Smith, companyName |-> Acme,
     userType |-> userType, accountStatus |-> accountStatus,
     lastLogin |-> ProcessStart, dateJoined |-> ProcessStart]

RegisterUser ==
    [email : Emails, password : {"Abcdef12"}, firstName : {Bill}, lastName : {Smith},
     companyName : {Acme}, userType : UserType]

LoginBase == [email : Emails, password : Passwords]

\* the logins tried against the seeded accounts: their emails with the right
\* and a wrong password, and an email no account has
LoginAttempts == LoginBase \cup {[email |-> "nobody@x.com", password |-> "Abcdef12"]}

\* the state of a process that has served nothing yet, over the given users
Fresh(seed, slots) ==
    /\ users = seed
    /\ companies = <<>>
    /\ nextOid = Len(seed)
    /\ tokens = {}
    /\ now = ProcessStart
    /\ regs = [s \in 1..slots |-> Idle]
    /\ response = NoResponse
    /\ permLog = <<>>

-----------------------------------------------------------------------------
(* SpecPerm: the role policy evaluated on every pair of roles *)

InitPerm == Fresh(<<>>, 1)

NextPerm == \E a \in UserType, t \in UserType : PermCall(a, t)

SpecPerm == InitPerm /\ [][NextPerm]_vars

-----------------------------------------------------------------------------
(* SpecToken: tokens issued and validated as the clock advances *)

InitToken == Fresh(<<>>, 1)

NextToken ==
    \/ \E i \in TokenSubjects, t \in 1..MaxTtl : EncodeCall(i, t)
    \/ \E tok \in ClientTokens : DecodeCall(tok)
    \/ Tick

SpecToken == InitToken /\ [][NextToken]_vars

-----------------------------------------------------------------------------
(* SpecReg: concurrent register requests against an initially empty store *)

InitReg ==
    \E seed \in {<<>>, <<SeedUser(1, "c@x.com", CLIENT_USER, "ACTIVE")>>} :
        Fresh(seed, MaxInFlight)

NextReg ==
    \/ \E s \in DOMAIN regs, newUser \in RegisterUser :
            register_find_email(s, newUser, MaxUsers)
    \/ \E s \in DOMAIN regs : register_find_username(s)
    \/ \E s \in DOMAIN regs : register_insert_one(s)
    \/ \E s \in DOMAIN regs : register_respond(s)

SpecReg == InitReg /\ [][NextReg]_vars

-----------------------------------------------------------------------------
(* SpecAuth: login, currentUser and reset-password over two stored accounts,
   the first in any lifecycle status *)

InitAuth ==
    \E st \in AccountStatus :
        Fresh(<<SeedUser(1, "a@x.com", CLIENT_ADMIN, st),
                SeedUser(2, "b@x.com", CLIENT_USER, "ACTIVE")>>, 1)

NextAuth ==
    \/ \E loginUser \in LoginAttempts : login(loginUser)
    \/ \E tok \in RequestTokens : currentUser(tok)
    \/ \E tok \in RequestTokens, password \in Passwords : update_password(tok, password)
    \/ Tick

SpecAuth == InitAuth /\ [][NextAuth]_vars

-----------------------------------------------------------------------------
(* SpecCompany: the company handlers and the listings, called by a Kurious
   superuser and by a second account of any role and status *)

NewCompany ==
    [companyName : {Acme}, firstName : {Bill}, lastName : {Smith},
     tokenAllotment : {5000}, email : {"a@x.com", "nobody@x.com"}]

\* an id string that is well formed and names no document
UnknownId == str(0)

CompanyUpdate ==
    {[tokenUsage |-> 750, tokenAllotment |-> 6000, adminId |-> str(2)]}

\* CompanyUpdate declares tokenUsage and tokenAllotment as int and adminId as
\* str, with no constraint: bodies that pass its validation
CompanyUpdates ==
    CompanyUpdate
    \cup {[tokenUsage |-> -1, tokenAllotment |-> TokenAllotmentLimit],
          [adminId |-> UnknownId]}

\* the ids a client can put in the path
PathIds == {str(c["_id"]) : c \in Range(companies)} \cup {UnknownId}

InitCompany ==
    \E role \in UserType, st \in AccountStatus :
        Fresh(<<SeedUser(1, "a@x.com", SUPERUSER, "ACTIVE"),
                SeedUser(2, "b@x.com", role, st)>>, 1)

NextCompany ==
    \/ \E email \in Emails : login([email |-> email, password |-> "Abcdef12"])
    \/ \E tok \in RequestTokens : get_users(tok, 1, 20, <<>>, <<>>, <<>>)
    \/ \E tok \in RequestTokens, orderBy \in {"ALPHABETICAL_ASC"} :
            get_companies(tok, <<>>, orderBy)
    \/ \E tok \in RequestTokens, newCompany \in NewCompany :
            create_company(tok, newCompany, MaxCompanies)
    \/ \E tok \in RequestTokens, companyId \in PathIds, updatedCompany \in CompanyUpdate :
            update_company(tok, companyId, updatedCompany)
    \/ \E tok \in RequestTokens, companyId \in PathIds : delete_company(tok, companyId)
    \/ \E tok \in RequestTokens, companyId \in PathIds, isActive \in BOOLEAN :
            company_status(tok, companyId, isActive)

SpecCompany == InitCompany /\ [][NextCompany]_vars

-----------------------------------------------------------------------------
(* SpecTenant: the company records under every sequence of company
   operations by a Kurious superuser *)

InitTenant ==
    Fresh(<<SeedUser(1, "a@x.com", SUPERUSER, "ACTIVE"),
            SeedUser(2, "b@x.com", CLIENT_ADMIN, "ACTIVE")>>, 1)

NextTenant ==
    \/ login([email |-> "a@x.com", password |-> "Abcdef12"])
    \/ \E tok \in RequestTokens, newCompany \in NewCompany :
            create_company(tok, newCompany, MaxCompanies)
    \/ \E tok \in RequestTokens, companyId \in PathIds, updatedCompany \in CompanyUpdates :
            update_company(tok, companyId, updatedCompany)
    \/ \E tok \in RequestTokens, companyId \in PathIds, isActive \in BOOLEAN :
            company_status(tok, companyId, isActive)
    \/ \E tok \in RequestTokens, companyId \in PathIds : delete_company(tok, companyId)
    \/ \E tok \in RequestTokens : get_companies(tok, <<>>, "ALPHABETICAL_ASC")

SpecTenant == InitTenant /\ [][NextTenant]_vars

-----------------------------------------------------------------------------
(* SpecStatus: the handlers that write to "users" (register, login,
   update_password), over an account of any status *)

InitStatus ==
    \E st \in AccountStatus :
        Fresh(<<SeedUser(1, "a@x.com", CLIENT_ADMIN, st)>>, 1)

NextStatus ==
    \/ \E s \in DOMAIN regs, newUser \in RegisterUser :
            register_find_email(s, newUser, MaxUsers)
    \/ \E s \in DOMAIN regs : register_find_username(s)
    \/ \E s \in DOMAIN regs : register_insert_one(s)
    \/ \E s \in DOMAIN regs : register_respond(s)
    \/ \E loginUser \in LoginBase : login(loginUser)
    \/ \E tok \in RequestTokens, password \in Passwords : update_password(tok, password)

SpecStatus == InitStatus /\ [][NextStatus]_vars

-----------------------------------------------------------------------------
(* SpecSession: tokens in use while the clock runs and the accounts and the
   companies change: logins, password resets, company mutations *)

InitSession ==
    \E st \in {"ACTIVE", "PENDING"} :
        Fresh(<<SeedUser(1, "a@x.com", SUPERUSER, st),
                SeedUser(2, "b@x.com", CLIENT_USER, "ACTIVE")>>, 1)

NextSession ==
    \/ \E loginUser \in {u \in LoginBase : u.email = "a@x.com"} : login(loginUser)
    \/ \E tok \in RequestTokens : currentUser(tok)
    \/ \E tok \in RequestTokens, password \in Passwords : update_password(tok, password)
    \/ \E tok \in RequestTokens, newCompany \in {c \in NewCompany : c.email = "a@x.com"} :
            create_company(tok, newCompany, MaxCompanies)
    \/ \E tok \in RequestTokens, companyId \in PathIds : delete_company(tok, companyId)
    \/ Tick

SpecSession == InitSession /\ [][NextSession]_vars

-----------------------------------------------------------------------------
(* SpecList: get_users over collections of several users, called by a Kurious
   superuser with the pages, page sizes and filters below.  The pipeline has
   no "$sort": the documents come in the store's order, here the order of
   insertion, the same at every call while the collection is unchanged. *)

MaxListed == 4

Carl == <<"C", "a">>

ListedEmails == <<"a@x.com", "b@x.com", "c@x.com", "d@x.com", "e@x.com", "f@x.com">>

\* the collections listed: the superuser, then clients of either first name
ListedUsers(firstNames) ==
    [i \in 1..(Len(firstNames) + 1) |->
        IF i = 1 THEN SeedUser(1, ListedEmails[1], SUPERUSER, "ACTIVE")
        ELSE [SeedUser(i, ListedEmails[i], CLIENT_USER, "ACTIVE")
                EXCEPT !.firstName = firstNames[i - 1]]]

\* page and pageSize are declared int, with no lower bound
Pages == 0..3
PageSizes == {-1, 0, 1, 2, 4, 20, 40}
NameFilters == {<<>>, <<"b">>}

InitList ==
    \E n \in 0..(MaxListed - 1) : \E firstNames \in [1..n -> {Bill, Carl}] :
        Fresh(ListedUsers(firstNames), 1)

NextList ==
    \/ login([email |-> "a@x.com", password |-> "Abcdef12"])
    \/ \E tok \in RequestTokens, page \in Pages, pageSize \in PageSizes,
          firstName \in NameFilters :
            get_users(tok, page, pageSize, firstName, <<>>, <<>>)

SpecList == InitList /\ [][NextList]_vars

-----------------------------------------------------------------------------
(* Spec: every handler, requests served one at a time within one minute of
   the clock, over a store that holds one Kurious superuser.  What depends on
   the clock advancing is the matter of SpecToken and SpecAuth. *)

Init == Fresh(<<SeedUser(1, "a@x.com", SUPERUSER, "ACTIVE")>>, 1)

\* the registrations sent to the full service: one staff role, one client role
Applicants == {u \in RegisterUser : u.userType \in {SALES, CLIENT_USER}}

Next ==
    \/ \E s \in DOMAIN regs, newUser \in Applicants :
            register_find_email(s, newUser, MaxUsers)
    \/ \E s \in DOMAIN regs : register_find_username(s)
    \/ \E s \in DOMAIN regs : register_insert_one(s)
    \/ \E s \in DOMAIN regs : register_respond(s)
    \/ \E loginUser \in LoginBase : login(loginUser)
    \/ \E tok \in RequestTokens : currentUser(tok)
    \/ \E tok \in RequestTokens, password \in {"Xyz98765"} : update_password(tok, password)
    \/ \E tok \in RequestTokens : get_users(tok, 1, 20, <<>>, <<>>, <<>>)
    \/ \E tok \in RequestTokens : get_companies(tok, <<>>, "ALPHABETICAL_ASC")
    \/ \E tok \in RequestTokens, newCompany \in NewCompany :
            create_company(tok, newCompany, MaxCompanies)
    \/ \E tok \in RequestTokens, companyId \in PathIds, updatedCompany \in CompanyUpdate :
            update_company(tok, companyId, updatedCompany)
    \/ \E tok \in RequestTokens, companyId \in PathIds : delete_company(tok, companyId)
    \/ \E tok \in RequestTokens, companyId \in PathIds, isActive \in BOOLEAN :
            company_status(tok, companyId, isActive)

Spec == Init /\ [][Next]_vars

-----------------------------------------------------------------------------
(* Properties *)

\* the pairs (actor, target) the role hierarchy lets through, written out
C1_Allowed ==
    {<<SUPERUSER, SUPERUSER>>, <<SUPERUSER, SALES>>, <<SUPERUSER, CLIENT_ADMIN>>,
     <<SUPERUSER, CLIENT_USER>>, <<SALES, CLIENT_ADMIN>>, <<SALES, CLIENT_USER>>,
     <<CLIENT_ADMIN, CLIENT_USER>>}

C1_Rank(t) ==
    CASE t = SUPERUSER -> 4 [] t = SALES -> 3 [] t = CLIENT_ADMIN -> 2 [] t = CLIENT_USER -> 1

\* C1: has_permission_to_create(actor, target) is true if actor is SUPERUSER and
\* otherwise exactly when the actor's priority (4, 3, 2, 1) is strictly greater
\* than the target's: true for (SUPERUSER, X), false for (CLIENT_ADMIN,
\* CLIENT_ADMIN), false for (CLIENT_USER, X).
C1_CanCreate ==
    \A i \in DOMAIN permLog :
        LET c == permLog[i]
        IN  /\ c.result = (c.actor = SUPERUSER \/ C1_Rank(c.actor) > C1_Rank(c.target))
            /\ c.result = (<<c.actor, c.target>> \in C1_Allowed)
            /\ c.actor = SUPERUSER => c.result
            /\ c.actor = CLIENT_USER => ~c.result
            /\ (c.actor = CLIENT_ADMIN /\ c.target = CLIENT_ADMIN) => ~c.result

C1_Witness ==
    /\ Len(permLog) = 2
    /\ permLog[1] = [actor |-> CLIENT_ADMIN, target |-> CLIENT_ADMIN, result |-> FALSE]
    /\ permLog[2] = [actor |-> SUPERUSER, target |-> SUPERUSER, result |-> TRUE]

\* C2: a token from encode_token(i, t), t > 0, decodes to i before its
\* expires-at instant (issue time + t); after that instant decode_token fails
\* with 401 "Signature has expired"; a token that encode_token did not produce
\* with the process secret fails with 401 "Invalid token"; no identity is ever
\* returned for an expired or tampered token.
C2_TokenValidity ==
    /\ \A t \in tokens : t.payload.exp - t.payload.iat \in 1..MaxTtl
    /\ response.op = "decode_token" =>
        LET t == response.token
            issued == t \in tokens
        IN  /\ (issued /\ response.at < t.payload.exp)
                    => response.out = [status |-> 200, sub |-> t.payload.sub]
            /\ (issued /\ response.at > t.payload.exp)
                    => response.out = [status |-> 401, detail |-> "Signature has expired"]
            /\ ~issued => response.out = [status |-> 401, detail |-> "Invalid token"]
            /\ response.out.status = 200 => issued /\ response.at <= t.payload.exp

C2_Witness ==
    /\ response.op = "decode_token"
    /\ response.token \in tokens
    /\ response.at > response.token.payload.exp
    /\ response.out = [status |-> 401, detail |-> "Signature has expired"]

\* C7: under any interleaving of register requests no two user records share an
\* email.
C7_EmailUnique ==
    \A i \in DOMAIN users : \A j \in DOMAIN users :
        i # j => users[i].email # users[j].email

\* C8: a new identity of role T is inserted only on behalf of an existing user
\* whose role A satisfies has_permission_to_create(A, T).
C8_CreatedByPermittedUser ==
    [][Len(users') > Len(users) =>
        \E i \in DOMAIN users :
            has_permission_to_create(users[i].userType, users'[Len(users')].userType)]_vars

\* C6: a DEACTIVATED account is rejected by every operation: login with its
\* credentials returns no token, currentUser with its token returns no record,
\* reset-password with its token answers 403.
C6_DeactivatedRejected ==
    \A i \in DOMAIN users :
        users[i].accountStatus = "DEACTIVATED" =>
            /\ ~(/\ response.op = "login"
                 /\ response.status = 200
                 /\ response.content.id = str(users[i]["_id"]))
            /\ ~(/\ response.op = "currentUser"
                 /\ response.status = 200
                 /\ response.userId = str(users[i]["_id"]))
            /\ (response.op = "update_password" /\ response.userId = str(users[i]["_id"]))
                    => response.status = 403

\* the account a response was produced for
Actor(r) == CHOOSE u \in Range(users) : str(u["_id"]) = r.userId

Authenticated(r) == r.userId # NoAuth /\ \E u \in Range(users) : str(u["_id"]) = r.userId

CompanyMutations == {"create_company", "update_company", "delete_company", "company_status"}
Listings == {"get_users", "get_companies"}

C3_ClientRefused ==
    (/\ response.op \in CompanyMutations
     /\ Authenticated(response)
     /\ Actor(response).accountStatus = "ACTIVE"
     /\ Actor(response).userType \in {CLIENT_ADMIN, CLIENT_USER})
    => /\ response.status = 403
       /\ response.detail.allowed = <<SUPERUSER, SALES>>
       /\ response.detail.actual = Actor(response).userType

\* C3: create_company, update_company, delete_company and company_status change
\* the companies collection only for an ACTIVE actor whose role is SUPERUSER or
\* SALES; for a CLIENT_ADMIN or CLIENT_USER the operation ends in 403 with a
\* message naming the allowed roles and the actor's role, and the collection
\* is unchanged.
C3_CompanyMutationsGated ==
    [][/\ C3_ClientRefused'
       /\ companies' # companies =>
            /\ response'.op \in CompanyMutations
            /\ Authenticated(response')
            /\ Actor(response').accountStatus = "ACTIVE"
            /\ Actor(response').userType \in {SUPERUSER, SALES}]_vars

C3_Witness ==
    /\ response.op = "delete_company"
    /\ response.status = 403
    /\ Authenticated(response)
    /\ Actor(response).userType = CLIENT_ADMIN
    /\ Actor(response).accountStatus = "ACTIVE"
    /\ Len(companies) = 1
    /\ response.content = <<>>

\* C4: get_users and get_companies return records only to an actor whose role
\* is SUPERUSER or SALES.
C4_ListingsGated ==
    (/\ response.op \in Listings
     /\ response.status = 200
     /\ response.content # <<>>)
    => Actor(response).userType \in {SUPERUSER, SALES}

C5_InactiveRefused ==
    (/\ response.op \in CompanyMutations \cup Listings
     /\ Authenticated(response)
     /\ Actor(response).accountStatus # "ACTIVE")
    => /\ response.status = 403
       /\ response.detail = "Current user is not active and not authorized."
       /\ response.content = <<>>

\* C5: a listing or company mutation called with a valid token of an account
\* that is not ACTIVE ends in the "not active" 403 whatever the role, returns
\* no records and writes nothing.
C5_InactiveAccountsRefused ==
    [][/\ C5_InactiveRefused'
       /\ (/\ response'.op \in CompanyMutations \cup Listings
           /\ Authenticated(response')
           /\ Actor(response').accountStatus # "ACTIVE")
          => (users' = users /\ companies' = companies /\ nextOid' = nextOid)]_vars

C5_Witness ==
    /\ response.op = "create_company"
    /\ response.status = 403
    /\ Authenticated(response)
    /\ Actor(response).userType = SALES
    /\ Actor(response).accountStatus = "PENDING"
    /\ companies = <<>>


\* what one step of a register request does to slot s
C9_Step(s) ==
    LET before == regs[s]
        after == regs'[s]
    IN  \* a request gets past the lookups only with an email and a username
        \* that no document has
        /\ after.pc \in {"find_username", "insert_one"} =>
            /\ find_one(users', "email", after.newUser.email) = None
            /\ find_one(users', "username", after.newUser.username) = None
        \* it then adds one document, username = email, password hashed
        /\ (before.pc = "insert_one" /\ after # before) =>
            /\ Len(users') = Len(users) + 1
            /\ SubSeq(users', 1, Len(users)) = users
            /\ LET doc == users'[Len(users')]
               IN  /\ doc.email = before.newUser.email
                   /\ doc.username = doc.email
                   /\ \E p \in Passwords : verify_password(p, doc.password)
        \* and ends with 201 and the document it added
        /\ (before.pc = "find_created" /\ after # before) =>
            /\ after = Idle
            /\ response'.op = "register"
            /\ response'.status = 201
            /\ response'.content.email = users[Len(users)].email
            /\ users' = users
        \* 409 is the answer exactly to an email or username that is present
        /\ (response' # response /\ response'.op = "register" /\ response'.status = 409) =>
            /\ users' = users
            /\ \E i \in DOMAIN users :
                    response'.detail[2] \in {users[i].email, users[i].username}
        \* nothing but the insert of a register request adds a user
        /\ Len(users') # Len(users) => before.pc = "insert_one"

\* C9: a sequential register request with an email no user has ends with 201
\* and adds exactly one user record, username equal to email and the password
\* stored hashed; a register request whose email or username is present ends
\* with 409 and leaves the users collection unchanged.
C9_SequentialRegister == [][\A s \in DOMAIN regs : C9_Step(s)]_vars

\* the email registered a moment ago is refused the second time
C9_Witness ==
    /\ Len(users) = 2
    /\ users[2].username = users[2].email
    /\ response.op = "register"
    /\ response.status = 409
    /\ response.detail[2] = users[2].email

\* the field names of the user records a response carries
C10_UserRecords(r) ==
    CASE r.op \in {"register", "login", "currentUser", "update_password"} -> {r.content}
      [] r.op = "get_users" -> Range(r.content.data)
      [] r.op = "create_company" -> {r.content}
      [] r.op = "get_companies" ->
            Range(r.content) \cup UNION {Range(c.users) : c \in Range(r.content)}
      [] OTHER -> {}

\* C10: no response of any operation (register, login, currentUser,
\* reset-password, get_users, create_company, get_companies with its
\* per-company users lists) contains the password field of a user record.
C10_PasswordNeverExposed ==
    (response # NoResponse /\ response.status \in {200, 201}) =>
        \A rec \in C10_UserRecords(response) : "password" \notin DOMAIN rec

C10_Witness ==
    /\ response.op = "get_companies"
    /\ response.status = 200
    /\ Len(response.content) >= 1
    /\ Len(response.content[1].users) >= 2
    /\ \E i \in DOMAIN users : users[i].password # get_password_hash("Abcdef12")


\* the positions of the accounts a login's credentials open
C11_Matching(loginUser) ==
    {i \in DOMAIN users :
        /\ users[i].email = loginUser.email
        /\ users[i].password = get_password_hash(loginUser.password)}

C11_LoginStep(loginUser) ==
    login(loginUser) =>
        IF C11_Matching(loginUser) = {}
        THEN /\ response'.op = "login"
             /\ response'.status = 401
             /\ users' = users
             /\ tokens' = tokens
        ELSE \E i \in C11_Matching(loginUser) :
                /\ response'.op = "login"
                /\ response'.status = 200
                /\ response'.content.id = str(users[i]["_id"])
                /\ response'.content.token.payload.sub = str(users[i]["_id"])
                /\ response'.content.token \in tokens'
                /\ Decoded(str(users[i]["_id"])) \in decode_token(response'.content.token)
                /\ users' = [users EXCEPT ![i] = [@ EXCEPT !.lastLogin = now]]

\* C11: login with an unknown email, or with a password that does not verify
\* against the stored hash, ends with 401 and leaves every field of every user
\* record unchanged; login with the correct credentials ends with 200, returns
\* a token whose subject is that user's id, and changes only that user's
\* lastLogin, setting it to the current time.
C11_LoginFrame == [][\A loginUser \in LoginAttempts : C11_LoginStep(loginUser)]_vars

\* a second account has logged in after the clock moved, the first has not
C11_Witness ==
    /\ response.op = "login"
    /\ response.status = 200
    /\ response.content.id = str(2)
    /\ now > ProcessStart
    /\ users[2].lastLogin = now
    /\ users[1].lastLogin = ProcessStart


\* a reset-password step that answers 200: what it does to the account
C12_ResetStep(tok, q) ==
    (update_password(tok, q) /\ response'.status = 200) =>
        \E i \in DOMAIN users :
            /\ response'.userId = str(users[i]["_id"])
            /\ users[i].accountStatus \in {"ACTIVE", "PENDING"}
            /\ users' = [users EXCEPT ![i] =
                    [@ EXCEPT !.password = get_password_hash(q), !.accountStatus = "ACTIVE"]]
            /\ verify_password(q, users'[i].password)
            /\ \A p \in Passwords \ {q} : ~verify_password(p, users'[i].password)

\* a login that follows a reset: only the password of the reset opens the account
C12_LoginAfterReset(loginUser) ==
    (/\ response.op = "update_password"
     /\ response.status = 200
     /\ login(loginUser)
     /\ \E i \in DOMAIN users :
            str(users[i]["_id"]) = response.userId /\ users[i].email = loginUser.email)
    => LET i == CHOOSE k \in DOMAIN users : str(users[k]["_id"]) = response.userId
       IN  IF users[i].password = get_password_hash(loginUser.password)
           THEN response'.status = 200 /\ response'.content.id = response.userId
           ELSE response'.status = 401

\* C12: a successful reset-password with new password q sets the account's
\* status to ACTIVE and replaces its stored credential, so that afterwards
\* login with q succeeds and login with the previous password, when it differs
\* from q, fails with 401; no other field of the account and no other account
\* changes.
C12_ResetRotatesCredential ==
    [][/\ \A tok \in RequestTokens, q \in Passwords : C12_ResetStep(tok, q)
       /\ \A loginUser \in LoginAttempts : C12_LoginAfterReset(loginUser)]_vars

\* the first account, holder of a token, has been reset to another password
\* without a login since, and a login was then refused
C12_Witness ==
    /\ users[1].accountStatus = "ACTIVE"
    /\ users[1].password = get_password_hash("Xyz98765")
    /\ users[1].lastLogin = ProcessStart
    /\ users[2].lastLogin = ProcessStart
    /\ response.op = "login"
    /\ response.status = 401
    /\ \E t \in tokens : t.payload.sub = str(1)


\* what a token that has not reached its expires-at instant does in one step
C13_TokenStep(tok) ==
    LET sub == tok.payload.sub
    IN  /\ decode_token(tok) = {Decoded(sub)}
        /\ currentUser(tok) => (response'.status # 401 /\ response'.userId = sub)
        /\ \A q \in Passwords :
            update_password(tok, q) =>
                /\ response'.status \in {200, 403}
                /\ response'.userId = sub
                \* a reset by this token does not stop the next one
                /\ (response.op = "update_password" /\ response.status = 200
                        /\ response.userId = sub) => response'.status = 200
        /\ \A newCompany \in NewCompany :
            create_company(tok, newCompany, MaxCompanies) =>
                (response'.status # 401 /\ response'.userId = sub)
        /\ \A companyId \in PathIds :
            delete_company(tok, companyId) =>
                (response'.status # 401 /\ response'.userId = sub)

\* C13: there is no revocation: a token issued for identity i stays valid
\* until its expires-at instant whatever happens in between (further logins, a
\* password reset of i, company mutations): decode_token keeps returning i,
\* and the same token drives reset-password again after it has done so once.
C13_NoRevocation ==
    [][/\ tokens \subseteq tokens'
       /\ \A tok \in tokens : now < tok.payload.exp => C13_TokenStep(tok)]_vars

\* the one token there is, issued an instant ago, is accepted after a
\* password reset of its account and a company creation
C13_Witness ==
    /\ response.op = "currentUser"
    /\ response.status = 200
    /\ response.userId = str(1)
    /\ \E t \in tokens :
            /\ tokens = {t}
            /\ t.payload.sub = str(1)
            /\ t.payload.iat < now
            /\ now < t.payload.exp
    /\ users[1].password = get_password_hash("Xyz98765")
    /\ Len(companies) = 1


\* the ids on a page
C14_Ids(page) == {page[i].id : i \in DOMAIN page}

\* a page of one size followed by the next equals the first page of twice the size
C14_Pages(firstName, pageSize) ==
    LET first == users_pipeline(firstName, <<>>, <<>>, 1, pageSize)
        second == users_pipeline(firstName, <<>>, <<>>, 2, pageSize)
        both == users_pipeline(firstName, <<>>, <<>>, 1, 2 * pageSize)
    IN  /\ C14_Ids(first) \cap C14_Ids(second) = {}
        /\ first \o second = both
        /\ Len(first) <= pageSize
        /\ Len(both) = Min(2 * pageSize, count_pipeline(firstName, <<>>, <<>>))

\* C14: for a fixed users collection and fixed filters, listing(page=1,
\* pageSize=20) and listing(page=2, pageSize=20) are disjoint and their
\* concatenation equals listing(page=1, pageSize=40), and so for every page
\* size; totalCount is the number of records matching the filters, the same
\* for every page and pageSize.
C14_Pagination ==
    /\ \A firstName \in NameFilters :
        /\ \A pageSize \in {1, 2, 20} : C14_Pages(firstName, pageSize)
        /\ count_pipeline(firstName, <<>>, <<>>) =
                Cardinality({i \in DOMAIN users :
                    firstName # <<>> => regex(firstName, users[i].firstName, TRUE)})
    /\ (response.op = "get_users" /\ response.status = 200) =>
        \E firstName \in NameFilters :
            /\ response.content.meta.totalCount = count_pipeline(firstName, <<>>, <<>>)
            /\ response.content.data =
                    SeqMap(users_pipeline(firstName, <<>>, <<>>,
                                response.content.meta.page,
                                response.content.meta.pageSize), UserBaseWithId)

\* the second page of two, of a collection of four, holds the third and the
\* fourth user
C14_Witness ==
    /\ Len(users) = 4
    /\ response.op = "get_users"
    /\ response.status = 200
    /\ response.content.meta = [page |-> 2, pageSize |-> 2, totalCount |-> 4]
    /\ Len(response.content.data) = 2
    /\ response.content.data[1].id = str(3)
    /\ response.content.data[2].id = str(4)


\* C15: a user listing request with pageSize <= 0, or page < 1, is rejected
\* with a validation error (422) before any query is built or run; it is
\* neither clamped nor reported as an internal error (500).  The requests
\* looked at carry the token of the ACTIVE superuser.
C15_BadPagingRejected ==
    [][\A tok \in tokens, page \in Pages, pageSize \in PageSizes,
         firstName \in NameFilters :
            (/\ pageSize <= 0 \/ page < 1
             /\ get_users(tok, page, pageSize, firstName, <<>>, <<>>))
            => response'.status = 422]_vars


\* C16: in every state reachable by create_company, update_company,
\* company_status and delete_company, every company record has
\* tokenUsage >= 0 and 0 <= tokenAllotment < 10,000,000.
C16_TokenCountsInRange ==
    \A i \in DOMAIN companies :
        /\ companies[i].tokenUsage >= 0
        /\ companies[i].tokenAllotment >= 0
        /\ companies[i].tokenAllotment < TokenAllotmentLimit

\* C17: the adminId of every company record is the id of an existing user
\* record, so that get_companies can resolve each company's admin; and
\* create_company with an admin email no user has answers 404 and inserts
\* nothing.
C17_AdminExists ==
    /\ \A i \in DOMAIN companies : admin_resolves(companies[i])
    /\ (response.op = "create_company" /\ response.status = 201) =>
            \E u \in Range(users) : u.email = response.content.email


\* C18: the only account status a handler writes is ACTIVE: register creates
\* the account ACTIVE, reset-password sets ACTIVE, nothing sets PENDING or
\* DEACTIVATED; an ACTIVE account stays ACTIVE and a DEACTIVATED account never
\* changes status.
C18_OnlyActiveWritten ==
    [][/\ Len(users') >= Len(users)
       /\ \A i \in DOMAIN users' :
            IF i \in DOMAIN users
            THEN /\ users'[i]["_id"] = users[i]["_id"]
                 /\ users'[i].accountStatus \in {users[i].accountStatus, "ACTIVE"}
                 /\ users[i].accountStatus = "DEACTIVATED"
                        => users'[i].accountStatus = "DEACTIVATED"
            ELSE users'[i].accountStatus = "ACTIVE"]_vars

\* a registered account is ACTIVE, and the DEACTIVATED one has tried a reset
C18_Witness ==
    /\ Len(users) = 2
    /\ users[1].accountStatus = "DEACTIVATED"
    /\ users[2].accountStatus = "ACTIVE"
    /\ response.op = "update_password"
    /\ response.status = 403
    /\ response.userId = str(1)

====
